---- MODULE Spec2Model ----
(***************************************************************************)
(* Model of egui_winit_platform's Platform (src/src/lib.rs): the state of  *)
(* one Platform object, handle_event (one action per match arm),           *)
(* update_time, begin_frame and end_frame, and the pure translation        *)
(* functions.  The window, the system clipboard and the browser are the    *)
(* host's: what end_frame does to them is recorded as the calls it makes.  *)
(*                                                                         *)
(* Conventions.  Option<T> is a sequence of length 0 (None) or 1 (Some).   *)
(* A String is the sequence of its Unicode code points.  A Pos2 / Vec2 is  *)
(* a pair <<x, y>>.  Physical coordinates are drawn from multiples of the  *)
(* scale factors in use, so the f32 division by the scale factor is exact  *)
(* and is modelled by integer division.  The zoom factor exp(y / 200) is   *)
(* kept symbolic as the argument of exp, a fraction num / den.             *)
(***************************************************************************)
EXTENDS Integers, Sequences, FiniteSets, TLC

VARIABLES
    target_os_macos,        \* cfg!(target_os = "macos") of the build
    scale_factor,           \* Platform::scale_factor
    raw_input,              \* Platform::raw_input (egui::RawInput)
    modifier_state,         \* Platform::modifier_state (winit ModifiersState)
    pointer_pos,            \* Platform::pointer_pos (Option<Pos2>)
    clipboard,              \* Platform::clipboard is Some (feature on, context created)
    touch_pointer_pressed,  \* Platform::touch_pointer_pressed (u32)
    device_indices,         \* Platform::device_indices (HashMap<DeviceId, u64>)
    next_device_index,      \* Platform::next_device_index (u64)
    history                 \* the calls made so far, each with what it enqueued

vars == <<target_os_macos, scale_factor, raw_input, modifier_state, pointer_pos,
          clipboard, touch_pointer_pressed, device_indices, next_device_index,
          history>>

-----------------------------------------------------------------------------
(* Bounds of the exploration. *)

\* Number of calls (handle_event, update_time, begin_frame, end_frame) in one
\* run.
MaxSteps == 3

-----------------------------------------------------------------------------
(* Values. *)

None == <<>>
Some(x) == <<x>>
IsSome(o) == Len(o) = 1
Unwrap(o) == o[1]

LineHeight == 8
ZoomDivisor == 200

ALT == "ALT"
CONTROL == "CONTROL"
SHIFT == "SHIFT"
SUPER == "SUPER"
ModifiersStateBits == {ALT, CONTROL, SHIFT, SUPER}

\* egui::Modifiers::default(): every flag false.
DefaultModifiers ==
    [alt |-> FALSE, ctrl |-> FALSE, shift |-> FALSE, mac_cmd |-> FALSE, command |-> FALSE]

\* vec2(width, height) / scale_factor, and pos2(x / scale_factor, y / scale_factor).
ToLogical(xy, sf) == <<xy[1] \div sf, xy[2] \div sf>>

\* egui::Rect::from_min_size(Pos2::default(), size)
RectFromMinSize(size) == [min |-> <<0, 0>>, max |-> size]

\* The events the queue ends with after a call, given its length before the call.
Suffix(s, n) == SubSeq(s, n + 1, Len(s))

-----------------------------------------------------------------------------
(* Pure functions of lib.rs. *)

\* winit_to_egui_modifiers
winit_to_egui_modifiers(macos, modifiers) ==
    [alt     |-> ALT \in modifiers,
     ctrl    |-> CONTROL \in modifiers,
     shift   |-> SHIFT \in modifiers,
     mac_cmd |-> IF macos THEN SUPER \in modifiers ELSE FALSE,
     command |-> SUPER \in modifiers]

\* char::is_ascii_control: U+0000..=U+001F and U+007F.
is_ascii_control(chr) == chr \in 0..31 \/ chr = 127

\* is_printable
\* Variant of is_printable that knows only the private-use area of the BMP.
is_printable_bmp_only(chr) ==
    LET is_in_private_use_area == chr \in 57344..63743
    IN  ~is_in_private_use_area /\ ~is_ascii_control(chr)

is_printable(chr) ==
    LET is_in_private_use_area ==
            \/ chr \in 57344..63743
            \/ chr \in 983040..1048573
            \/ chr \in 1048576..1114109
    IN  ~is_in_private_use_area /\ ~is_ascii_control(chr)

\* ch.chars().filter(|c| is_printable(*c)).collect()
RECURSIVE FilterPrintable(_)
FilterPrintable(str) ==
    IF str = <<>> THEN <<>>
    ELSE IF is_printable(Head(str)) THEN <<Head(str)>> \o FilterPrintable(Tail(str))
         ELSE FilterPrintable(Tail(str))

\* The NamedKey variants winit_to_egui_key_code maps (to the egui key of the same name).
MappedNamedKeys ==
    {"Escape", "Insert", "Home", "Delete", "End", "PageDown", "PageUp",
     "ArrowLeft", "ArrowUp", "ArrowRight", "ArrowDown", "Backspace", "Enter",
     "Tab", "Space", "F1", "F2", "F3", "F4", "F5", "F6", "F7", "F8", "F9",
     "F10", "F11", "F12", "F13", "F14", "F15", "F16", "F17", "F18", "F19", "F20"}

\* egui::Key::from_name on the one-letter names the model uses: a letter in
\* either case names its key, any other string names none.
KeyFromName(c) ==
    CASE c \in {"a", "A"} -> Some("A")
      [] c \in {"c", "C"} -> Some("C")
      [] c \in {"v", "V"} -> Some("V")
      [] c \in {"x", "X"} -> Some("X")
      [] OTHER -> None

\* winit_to_egui_key_code
winit_to_egui_key_code(key) ==
    CASE key.variant = "Named" /\ key.name \in MappedNamedKeys -> Some(key.name)
      [] key.variant = "Character" -> KeyFromName(key.name)
      [] OTHER -> None

-----------------------------------------------------------------------------
(* egui events, as pushed on raw_input.events. *)

PointerButton(pos, button, pressed) ==
    [type |-> "PointerButton", pos |-> pos, button |-> button, pressed |-> pressed,
     modifiers |-> DefaultModifiers]
PointerMoved(pos) == [type |-> "PointerMoved", pos |-> pos]
PointerGone == [type |-> "PointerGone"]
TouchEvent(device_id, id, phase, pos, force) ==
    [type |-> "Touch", device_id |-> device_id, id |-> id, phase |-> phase,
     pos |-> pos, force |-> Some(force)]
Scroll(delta) == [type |-> "Scroll", delta |-> delta]
Zoom(num, den) == [type |-> "Zoom", exp_num |-> num, exp_den |-> den]
Text(str) == [type |-> "Text", text |-> str]
Copy == [type |-> "Copy"]
Cut == [type |-> "Cut"]
KeyEvent(key, pressed, modifiers) ==
    [type |-> "Key", key |-> key, physical_key |-> None, pressed |-> pressed,
     modifiers |-> modifiers, repeat |-> FALSE]

-----------------------------------------------------------------------------
(* Bookkeeping of the calls. *)

Snapshot ==
    [scale_factor |-> scale_factor, raw_input |-> raw_input,
     modifier_state |-> modifier_state, pointer_pos |-> pointer_pos,
     touch_pointer_pressed |-> touch_pointer_pressed,
     device_indices |-> device_indices, next_device_index |-> next_device_index]

NoEvent == [kind |-> "none"]

\* The record of a handle_event call: the native event, the state it found,
\* the events by which it extended the queue and, when it read the clipboard,
\* what clipboard.get_contents() returned (None for Err, Some(string) for Ok).
HandledWith(e, contents) ==
    history' = Append(history,
        [call |-> "handle_event", event |-> e, pre |-> Snapshot,
         pushed |-> Suffix(raw_input'.events, Len(raw_input.events)),
         clipboard_contents |-> contents, frame |-> None])

Handled(e) == HandledWith(e, None)

Push(evs) == raw_input' = [raw_input EXCEPT !.events = @ \o evs]

\* The caller makes at most MaxSteps calls.
CanCall == Len(history) < MaxSteps

-----------------------------------------------------------------------------
(* Construction. *)

\* PlatformDescriptor values: physical width, physical height, scale factor.
Descriptors == {[physical_width |-> 8, physical_height |-> 4, scale_factor |-> 2]}

\* Platform::new
Init ==
    /\ target_os_macos \in BOOLEAN
    /\ clipboard \in BOOLEAN
    /\ \E descriptor \in Descriptors :
        /\ scale_factor = descriptor.scale_factor
        /\ raw_input =
            [screen_rect |-> Some(RectFromMinSize(ToLogical(
                    <<descriptor.physical_width, descriptor.physical_height>>,
                    descriptor.scale_factor))),
             pixels_per_point |-> None,
             time |-> None,
             modifiers |-> DefaultModifiers,
             events |-> <<>>]
    /\ modifier_state = {}
    /\ pointer_pos = Some(<<0, 0>>)
    /\ touch_pointer_pressed = 0
    /\ device_indices = <<>>
    /\ next_device_index = 1
    /\ history = <<>>

-----------------------------------------------------------------------------
(* handle_event, one action per arm of its match. *)

\* self.raw_input.screen_rect after a resize.
\* Variant without the arm for the minimize notification.
ResizedScreenRect_no_minimize(screen_rect, sf, e) ==
    Some(RectFromMinSize(ToLogical(<<e.width, e.height>>, sf)))

\* The arms Resized(PhysicalSize { width: 0, height: 0 }) => {} and
\* Resized(physical_size).
ResizedScreenRect(screen_rect, sf, e) ==
    IF e.width = 0 /\ e.height = 0
    THEN screen_rect
    ELSE Some(RectFromMinSize(ToLogical(<<e.width, e.height>>, sf)))

\* Resized(..)
Resized(e) ==
    /\ CanCall
    /\ e.kind = "Resized"
    /\ raw_input' = [raw_input EXCEPT !.screen_rect =
            ResizedScreenRect(raw_input.screen_rect, scale_factor, e)]
    /\ UNCHANGED <<target_os_macos, scale_factor, modifier_state, pointer_pos, clipboard,
                   touch_pointer_pressed, device_indices, next_device_index>>
    /\ Handled(e)

\* ScaleFactorChanged { scale_factor, .. }
\* Variant that also rescales the screen rectangle to the new factor.
ScaleFactorChanged_rect_rescaled(e) ==
    /\ CanCall
    /\ e.kind = "ScaleFactorChanged"
    /\ scale_factor' = e.scale_factor
    /\ raw_input' =
            IF IsSome(raw_input.screen_rect)
            THEN [raw_input EXCEPT !.screen_rect =
                    Some(RectFromMinSize(
                        <<(Unwrap(@).max[1] * scale_factor) \div e.scale_factor,
                          (Unwrap(@).max[2] * scale_factor) \div e.scale_factor>>))]
            ELSE raw_input
    /\ UNCHANGED <<target_os_macos, modifier_state, pointer_pos, clipboard,
                   touch_pointer_pressed, device_indices, next_device_index>>
    /\ Handled(e)

ScaleFactorChanged(e) ==
    /\ CanCall
    /\ e.kind = "ScaleFactorChanged"
    /\ scale_factor' = e.scale_factor
    /\ UNCHANGED <<target_os_macos, raw_input, modifier_state, pointer_pos, clipboard,
                   touch_pointer_pressed, device_indices, next_device_index>>
    /\ Handled(e)

\* The match on the winit MouseButton.
EguiPointerButton(button) ==
    CASE button = "Left" -> Some("Primary")
      [] button = "Right" -> Some("Secondary")
      [] button = "Middle" -> Some("Middle")
      [] OTHER -> None

\* The events a mouse button event pushes, given self.pointer_pos.
\* Variant that places the event at the origin when the position is unknown.
MouseButtonEvents_untracked_at_origin(pos, e) ==
    LET button == EguiPointerButton(e.button)
    IN  IF IsSome(button)
        THEN <<PointerButton(IF IsSome(pos) THEN Unwrap(pos) ELSE <<0, 0>>,
                             Unwrap(button), e.state = "Pressed")>>
        ELSE <<>>

MouseButtonEvents(pos, e) ==
    LET button == EguiPointerButton(e.button)
    IN  IF IsSome(button) /\ IsSome(pos)
        THEN <<PointerButton(Unwrap(pos), Unwrap(button), e.state = "Pressed")>>
        ELSE <<>>

\* MouseInput { state, button, .. }
MouseInput(e) ==
    /\ CanCall
    /\ e.kind = "MouseInput"
    /\ Push(MouseButtonEvents(pointer_pos, e))
    /\ UNCHANGED <<target_os_macos, scale_factor, modifier_state, pointer_pos, clipboard,
                   touch_pointer_pressed, device_indices, next_device_index>>
    /\ Handled(e)

\* The match on touch.phase that yields egui_phase.
EguiTouchPhase(phase) ==
    CASE phase = "Started" -> "Start"
      [] phase = "Moved" -> "Move"
      [] phase = "Ended" -> "End"
      [] phase = "Cancelled" -> "Cancel"

\* The match on touch.force; a force is <<variant, value>>.
EguiForce(force) == IF IsSome(force) THEN Unwrap(force)[2] ELSE 0

\* touch_pointer_pressed after a touch of the given phase: += 1, or
\* checked_sub(1).unwrap_or_else(|| 0).  The u32 is far from its maximum in
\* runs of MaxSteps calls, so the increment never wraps.
\* Variant with a plain subtraction in place of checked_sub.
TouchPressCount_unchecked_sub(count, phase) ==
    CASE phase = "Started" -> count + 1
      [] phase \in {"Ended", "Cancelled"} -> count - 1
      [] phase = "Moved" -> count

TouchPressCount(count, phase) ==
    CASE phase = "Started" -> count + 1
      [] phase \in {"Ended", "Cancelled"} -> IF count >= 1 THEN count - 1 ELSE 0
      [] phase = "Moved" -> count

\* The pointer events a touch adds after its raw touch event.
\* Variant that releases whenever a contact ends, not when the count reaches zero.
TouchPointerEvents_release_at_every_end(was_pressed, count, phase, pos) ==
    (IF phase = "Moved" THEN <<PointerMoved(pos)>> ELSE <<>>)
    \o (IF ~was_pressed /\ count > 0
        THEN <<PointerButton(pos, "Primary", TRUE)>>
        ELSE IF was_pressed /\ phase \in {"Ended", "Cancelled"}
             THEN <<PointerButton(pos, "Primary", FALSE), PointerGone>>
             ELSE <<>>)

\* Variant that releases whenever the count is zero after the event.
TouchPointerEvents_release_when_unpressed(was_pressed, count, phase, pos) ==
    (IF phase = "Moved" THEN <<PointerMoved(pos)>> ELSE <<>>)
    \o (IF ~was_pressed /\ count > 0
        THEN <<PointerButton(pos, "Primary", TRUE)>>
        ELSE IF count = 0 /\ phase \in {"Ended", "Cancelled"}
             THEN <<PointerButton(pos, "Primary", FALSE), PointerGone>>
             ELSE <<>>)

\* Variant that pushes PointerGone before the release.
TouchPointerEvents_gone_before_release(was_pressed, count, phase, pos) ==
    (IF phase = "Moved" THEN <<PointerMoved(pos)>> ELSE <<>>)
    \o (IF ~was_pressed /\ count > 0
        THEN <<PointerButton(pos, "Primary", TRUE)>>
        ELSE IF was_pressed /\ count = 0
             THEN <<PointerGone, PointerButton(pos, "Primary", FALSE)>>
             ELSE <<>>)

TouchPointerEvents(was_pressed, count, phase, pos) ==
    (IF phase = "Moved" THEN <<PointerMoved(pos)>> ELSE <<>>)
    \o (IF ~was_pressed /\ count > 0
        THEN <<PointerButton(pos, "Primary", TRUE)>>
        ELSE IF was_pressed /\ count = 0
             THEN <<PointerButton(pos, "Primary", FALSE), PointerGone>>
             ELSE <<>>)

\* self.next_device_index after the lookup of a device.
\* Variant that never advances the index.
NextDeviceIndex_not_advanced(known, next) == next

NextDeviceIndex(known, next) == IF known THEN next ELSE next + 1

\* Touch(touch)
Touch(e) ==
    /\ CanCall
    /\ e.kind = "Touch"
    /\ LET touch_pos == ToLogical(e.location, scale_factor)
           known == e.device_id \in DOMAIN device_indices
           device_id == IF known THEN device_indices[e.device_id] ELSE next_device_index
           was_pressed == touch_pointer_pressed > 0
           count == TouchPressCount(touch_pointer_pressed, e.phase)
       IN  /\ device_indices' =
                IF known THEN device_indices
                ELSE (e.device_id :> next_device_index) @@ device_indices
           /\ next_device_index' = NextDeviceIndex(known, next_device_index)
           /\ touch_pointer_pressed' = count
           /\ Push(<<TouchEvent(device_id, e.id, EguiTouchPhase(e.phase), touch_pos,
                                EguiForce(e.force))>>
                   \o TouchPointerEvents(was_pressed, count, e.phase, touch_pos))
    /\ UNCHANGED <<target_os_macos, scale_factor, modifier_state, pointer_pos, clipboard>>
    /\ Handled(e)

\* The delta of a wheel event in points: lines times the line height, pixels as
\* they are, the horizontal component negated on macOS.
\* Variant that takes lines for pixels.
WheelDelta_lines_as_pixels(macos, delta) ==
    LET d == <<delta.x, delta.y>>
    IN  IF macos THEN <<d[1] * (-1), d[2]>> ELSE d

WheelDelta(macos, delta) ==
    LET d == IF delta.unit = "LineDelta"
             THEN <<delta.x * LineHeight, delta.y * LineHeight>>
             ELSE <<delta.x, delta.y>>
    IN  IF macos THEN <<d[1] * (-1), d[2]>> ELSE d

\* MouseWheel { delta, .. }
MouseWheel(e) ==
    /\ CanCall
    /\ e.kind = "MouseWheel"
    /\ LET delta == WheelDelta(target_os_macos, e.delta)
       IN  IF raw_input.modifiers.ctrl \/ raw_input.modifiers.command
           THEN Push(<<Zoom(delta[2], ZoomDivisor)>>)
           ELSE Push(<<Scroll(delta)>>)
    /\ UNCHANGED <<target_os_macos, scale_factor, modifier_state, pointer_pos, clipboard,
                   touch_pointer_pressed, device_indices, next_device_index>>
    /\ Handled(e)

\* CursorMoved { position, .. }
CursorMoved(e) ==
    /\ CanCall
    /\ e.kind = "CursorMoved"
    /\ LET moved_pos == ToLogical(e.position, scale_factor)
       IN  /\ pointer_pos' = Some(moved_pos)
           /\ Push(<<PointerMoved(moved_pos)>>)
    /\ UNCHANGED <<target_os_macos, scale_factor, modifier_state, clipboard,
                   touch_pointer_pressed, device_indices, next_device_index>>
    /\ Handled(e)

\* CursorLeft { .. }
\* Variant that enqueues PointerGone and keeps the position.
CursorLeft_position_kept(e) ==
    /\ CanCall
    /\ e.kind = "CursorLeft"
    /\ Push(<<PointerGone>>)
    /\ UNCHANGED <<target_os_macos, scale_factor, modifier_state, pointer_pos, clipboard,
                   touch_pointer_pressed, device_indices, next_device_index>>
    /\ Handled(e)

CursorLeft(e) ==
    /\ CanCall
    /\ e.kind = "CursorLeft"
    /\ pointer_pos' = None
    /\ Push(<<PointerGone>>)
    /\ UNCHANGED <<target_os_macos, scale_factor, modifier_state, clipboard,
                   touch_pointer_pressed, device_indices, next_device_index>>
    /\ Handled(e)

\* ModifiersChanged(input)
ModifiersChanged(e) ==
    /\ CanCall
    /\ e.kind = "ModifiersChanged"
    /\ modifier_state' = e.state
    /\ raw_input' = [raw_input EXCEPT !.modifiers =
            winit_to_egui_modifiers(target_os_macos, e.state)]
    /\ UNCHANGED <<target_os_macos, scale_factor, pointer_pos, clipboard,
                   touch_pointer_pressed, device_indices, next_device_index>>
    /\ Handled(e)

\* The text event of a keyboard event: pressed, neither CONTROL nor SUPER held,
\* and a text that is not empty once filtered.
\* Variant that does not look at the modifiers.
KeyboardText_any_modifiers(mods, e) ==
    IF e.state = "Pressed" /\ IsSome(e.text)
       /\ FilterPrintable(Unwrap(e.text)) # <<>>
    THEN <<Text(FilterPrintable(Unwrap(e.text)))>>
    ELSE <<>>

KeyboardText(mods, e) ==
    IF e.state = "Pressed" /\ mods \cap {CONTROL, SUPER} = {} /\ IsSome(e.text)
       /\ FilterPrintable(Unwrap(e.text)) # <<>>
    THEN <<Text(FilterPrintable(Unwrap(e.text)))>>
    ELSE <<>>

\* The match on (pressed, ctrl, key); contents is what clipboard.get_contents()
\* returned: None for Err, Some(string) for Ok.
KeyboardKey(macos, mods, has_clipboard, contents, e) ==
    LET key == winit_to_egui_key_code(e.logical_key)
        pressed == e.state = "Pressed"
        ctrl == CONTROL \in mods
    IN  IF ~IsSome(key) THEN <<>>
        ELSE IF pressed /\ ctrl /\ Unwrap(key) = "C" THEN <<Copy>>
        ELSE IF pressed /\ ctrl /\ Unwrap(key) = "X" THEN <<Cut>>
        ELSE IF pressed /\ ctrl /\ Unwrap(key) = "V"
             THEN IF has_clipboard /\ IsSome(contents)
                  THEN <<Text(Unwrap(contents))>>
                  ELSE <<>>
        ELSE <<KeyEvent(Unwrap(key), pressed, winit_to_egui_modifiers(macos, mods))>>

\* Whether the keyboard event reaches clipboard.get_contents().
ReadsClipboard(mods, has_clipboard, e) ==
    /\ has_clipboard
    /\ e.state = "Pressed" /\ CONTROL \in mods
    /\ winit_to_egui_key_code(e.logical_key) = Some("V")

\* KeyboardInput { event, .. }
\* Variant that matches on the key before it pushes the text.
KeyboardInput_key_before_text(e, contents) ==
    /\ CanCall
    /\ e.kind = "KeyboardInput"
    /\ ~ReadsClipboard(modifier_state, clipboard, e) => contents = None
    /\ Push(KeyboardKey(target_os_macos, modifier_state, clipboard, contents, e)
            \o KeyboardText(modifier_state, e))
    /\ UNCHANGED <<target_os_macos, scale_factor, modifier_state, pointer_pos, clipboard,
                   touch_pointer_pressed, device_indices, next_device_index>>
    /\ HandledWith(e, contents)

KeyboardInput(e, contents) ==
    /\ CanCall
    /\ e.kind = "KeyboardInput"
    /\ ~ReadsClipboard(modifier_state, clipboard, e) => contents = None
    /\ Push(KeyboardText(modifier_state, e)
            \o KeyboardKey(target_os_macos, modifier_state, clipboard, contents, e))
    /\ UNCHANGED <<target_os_macos, scale_factor, modifier_state, pointer_pos, clipboard,
                   touch_pointer_pressed, device_indices, next_device_index>>
    /\ HandledWith(e, contents)

\* Every other WindowEvent, Event::DeviceEvent and every other Event.
Ignored(e) ==
    /\ CanCall
    /\ e.kind \in {"Focused", "DeviceEvent", "AboutToWait"}
    /\ UNCHANGED raw_input
    /\ UNCHANGED <<target_os_macos, scale_factor, modifier_state, pointer_pos, clipboard,
                   touch_pointer_pressed, device_indices, next_device_index>>
    /\ Handled(e)

-----------------------------------------------------------------------------
(* The frame. *)

\* Platform::update_time
UpdateTime(elapsed_seconds) ==
    /\ CanCall
    /\ raw_input' = [raw_input EXCEPT !.time = Some(elapsed_seconds)]
    /\ history' = Append(history,
            [call |-> "update_time", event |-> NoEvent, pre |-> Snapshot,
             pushed |-> <<>>, clipboard_contents |-> None, frame |-> None])
    /\ UNCHANGED <<target_os_macos, scale_factor, modifier_state, pointer_pos, clipboard,
                   touch_pointer_pressed, device_indices, next_device_index>>

\* What raw_input.take() leaves behind: the screen rectangle, the time and the
\* events are moved out, the modifiers are copied.
\* Variant that leaves the events in place.
RawInputTaken_events_copied(input) ==
    [input EXCEPT !.screen_rect = None, !.pixels_per_point = None, !.time = None]

RawInputTaken(input) ==
    [input EXCEPT !.screen_rect = None, !.pixels_per_point = None, !.time = None,
                  !.events = <<>>]

\* Platform::begin_frame; the taken RawInput goes to the context.
\* Variant that also resets the touch counter.
BeginFrame_touch_counter_reset ==
    /\ CanCall
    /\ raw_input' = RawInputTaken(raw_input)
    /\ touch_pointer_pressed' = 0
    /\ history' = Append(history,
            [call |-> "begin_frame", event |-> NoEvent, pre |-> Snapshot,
             pushed |-> <<>>, clipboard_contents |-> None, frame |-> Some(raw_input)])
    /\ UNCHANGED <<target_os_macos, scale_factor, modifier_state, pointer_pos, clipboard,
                   device_indices, next_device_index>>

BeginFrame ==
    /\ CanCall
    /\ raw_input' = RawInputTaken(raw_input)
    /\ history' = Append(history,
            [call |-> "begin_frame", event |-> NoEvent, pre |-> Snapshot,
             pushed |-> <<>>, clipboard_contents |-> None, frame |-> Some(raw_input)])
    /\ UNCHANGED <<target_os_macos, scale_factor, modifier_state, pointer_pos, clipboard,
                   touch_pointer_pressed, device_indices, next_device_index>>

\* egui_to_winit_cursor_icon: the egui icons that have a winit shape, each
\* with its shape; egui::CursorIcon::None has none.
CursorIconShapes ==
    {<<"Default", "Default">>, <<"ContextMenu", "ContextMenu">>, <<"Help", "Help">>,
     <<"PointingHand", "Pointer">>, <<"Progress", "Progress">>, <<"Wait", "Wait">>,
     <<"Cell", "Cell">>, <<"Crosshair", "Crosshair">>, <<"Text", "Text">>,
     <<"VerticalText", "VerticalText">>, <<"Alias", "Alias">>, <<"Copy", "Copy">>,
     <<"Move", "Move">>, <<"NoDrop", "NoDrop">>, <<"NotAllowed", "NotAllowed">>,
     <<"Grab", "Grab">>, <<"Grabbing", "Grabbing">>, <<"AllScroll", "AllScroll">>,
     <<"ResizeHorizontal", "EwResize">>, <<"ResizeNeSw", "NeswResize">>,
     <<"ResizeNwSe", "NwseResize">>, <<"ResizeVertical", "NsResize">>,
     <<"ResizeEast", "EResize">>, <<"ResizeSouthEast", "SeResize">>,
     <<"ResizeSouth", "SResize">>, <<"ResizeSouthWest", "SwResize">>,
     <<"ResizeWest", "WResize">>, <<"ResizeNorthWest", "NwResize">>,
     <<"ResizeNorth", "NResize">>, <<"ResizeNorthEast", "NeResize">>,
     <<"ResizeColumn", "ColResize">>, <<"ResizeRow", "RowResize">>,
     <<"ZoomIn", "ZoomIn">>, <<"ZoomOut", "ZoomOut">>}

egui_to_winit_cursor_icon(icon) ==
    IF \E p \in CursorIconShapes : p[1] = icon
    THEN Some((CHOOSE p \in CursorIconShapes : p[1] = icon)[2])
    ELSE None

\* The calls end_frame makes on the window.
\* Variant that sets the shape whether or not the pointer position is known.
WindowCalls_icon_without_pointer(window, pos, icon) ==
    IF ~IsSome(window) THEN <<>>
    ELSE IF IsSome(egui_to_winit_cursor_icon(icon))
    THEN <<[call |-> "set_cursor_visible", visible |-> TRUE],
           [call |-> "set_cursor_icon",
            cursor |-> Unwrap(egui_to_winit_cursor_icon(icon))]>>
    ELSE <<[call |-> "set_cursor_visible", visible |-> FALSE]>>

WindowCalls(window, pos, icon) ==
    IF ~IsSome(window) THEN <<>>
    ELSE IF IsSome(egui_to_winit_cursor_icon(icon))
    THEN <<[call |-> "set_cursor_visible", visible |-> TRUE]>>
         \o (IF IsSome(pos)
             THEN <<[call |-> "set_cursor_icon",
                     cursor |-> Unwrap(egui_to_winit_cursor_icon(icon))]>>
             ELSE <<>>)
    ELSE <<[call |-> "set_cursor_visible", visible |-> FALSE]>>

\* handle_clipboard
ClipboardCalls(has_clipboard, copied_text) ==
    IF copied_text # <<>> /\ has_clipboard
    THEN <<[call |-> "set_contents", contents |-> copied_text]>>
    ELSE <<>>

\* handle_links
LinkCalls(open_url) ==
    IF IsSome(open_url)
    THEN <<[call |-> "webbrowser_open", url |-> Unwrap(open_url)]>>
    ELSE <<>>

\* A frame has been begun and not ended.  The caller ends only a frame it has
\* begun.
FrameOpen ==
    \E i \in 1..Len(history) :
        /\ history[i].call = "begin_frame"
        /\ \A j \in (i + 1)..Len(history) : history[j].call # "end_frame"

\* Platform::end_frame; output is what context.end_frame() returned.  The
\* Platform is left as it was.
EndFrame(window, output) ==
    /\ CanCall
    /\ FrameOpen
    /\ history' = Append(history,
            [call |-> "end_frame", event |-> NoEvent, pre |-> Snapshot,
             pushed |-> <<>>, clipboard_contents |-> None, frame |-> None,
             window |-> window, output |-> output,
             host_calls |-> WindowCalls(window, pointer_pos, output.cursor_icon)
                            \o ClipboardCalls(clipboard, output.copied_text)
                            \o LinkCalls(output.open_url)])
    /\ UNCHANGED <<target_os_macos, scale_factor, raw_input, modifier_state,
                   pointer_pos, clipboard, touch_pointer_pressed, device_indices,
                   next_device_index>>

-----------------------------------------------------------------------------------------------------------------------------------------------------
(* The native events the host delivers. *)

ResizedEvents ==
    {[kind |-> "Resized", width |-> s[1], height |-> s[2]] :
        s \in {<<0, 0>>, <<0, 4>>, <<4, 8>>}}

ScaleFactorChangedEvents ==
    {[kind |-> "ScaleFactorChanged", scale_factor |-> f] : f \in {1, 2}}

MouseInputEvents ==
    {[kind |-> "MouseInput", state |-> s, button |-> b] :
        s \in {"Pressed", "Released"}, b \in {"Left", "Right", "Middle", "Back"}}

\* A contact is a device, a touch id and the force the device reports.
TouchContacts ==
    {[device_id |-> "dev_a", id |-> 0, force |-> None],
     [device_id |-> "dev_a", id |-> 1, force |-> Some(<<"Normalized", 1>>)],
     [device_id |-> "dev_b", id |-> 0, force |-> Some(<<"Calibrated", 2>>)],
     [device_id |-> "dev_c", id |-> 2, force |-> None]}

TouchEvents ==
    {[kind |-> "Touch", device_id |-> c.device_id, id |-> c.id, phase |-> p,
      location |-> <<4, 8>>, force |-> c.force] :
        c \in TouchContacts, p \in {"Started", "Moved", "Ended", "Cancelled"}}

MouseWheelEvents ==
    {[kind |-> "MouseWheel", delta |-> d] :
        d \in {[unit |-> "LineDelta", x |-> 1, y |-> 2],
               [unit |-> "PixelDelta", x |-> 3, y |-> 5]}}

CursorMovedEvents ==
    {[kind |-> "CursorMoved", position |-> p] : p \in {<<4, 8>>, <<8, 4>>}}

CursorLeftEvents == {[kind |-> "CursorLeft"]}

ModifiersChangedEvents ==
    {[kind |-> "ModifiersChanged", state |-> m] : m \in SUBSET ModifiersStateBits}

\* Logical keys with the text winit reports for them: letters, a letter egui
\* has no key for, named keys with a control character or private-use code
\* points as text, a text that mixes the kinds, and a key without text.
KeysWithText ==
    {<<[variant |-> "Character", name |-> "c"], Some(<<99>>)>>,
     <<[variant |-> "Character", name |-> "x"], Some(<<120>>)>>,
     <<[variant |-> "Character", name |-> "V"], Some(<<86>>)>>,
     <<[variant |-> "Character", name |-> "a"], Some(<<57344, 97, 127>>)>>,
     <<[variant |-> "Character", name |-> "ß"], Some(<<223>>)>>,
     <<[variant |-> "Named", name |-> "Escape"], Some(<<27>>)>>,
     <<[variant |-> "Named", name |-> "F5"], Some(<<983040, 1114109>>)>>,
     <<[variant |-> "Named", name |-> "F21"], None>>}

\* Keys whose events also arrive as repeats.
RepeatingKeys == {"a", "Escape"}

KeyboardInputEvents ==
    {[kind |-> "KeyboardInput", logical_key |-> k[1], text |-> k[2], state |-> s,
      repeat |-> FALSE] : k \in KeysWithText, s \in {"Pressed", "Released"}}
    \cup
    {[kind |-> "KeyboardInput", logical_key |-> k[1], text |-> k[2],
      state |-> "Pressed", repeat |-> TRUE] :
        k \in {kt \in KeysWithText : kt[1].name \in RepeatingKeys}}

IgnoredEvents == {[kind |-> k] : k \in {"Focused", "DeviceEvent", "AboutToWait"}}

\* What clipboard.get_contents() can return: Err, or Ok with a string.
ClipboardContents == {None, Some(<<112, 57344>>)}

ElapsedSeconds == {1}

\* The window argument of end_frame.
Windows == {None, Some("window")}

\* egui::CursorIcon
EguiCursorIcons == {p[1] : p \in CursorIconShapes} \cup {"None"}

\* What context.end_frame() returns, as far as end_frame reads it: every cursor
\* icon, and one output with copied text and a link to open.
PlatformOutputs ==
    {[cursor_icon |-> icon, copied_text |-> <<>>, open_url |-> None] :
        icon \in EguiCursorIcons}
    \cup {[cursor_icon |-> "Default", copied_text |-> <<99>>, open_url |-> Some(<<104>>)]}

FewPlatformOutputs ==
    {o \in PlatformOutputs : o.cursor_icon = "Default"}

\* The few events of each kind that the runs of every kind of call use.
FewEvents ==
    {e \in ResizedEvents : e.width = e.height}
    \cup {e \in ScaleFactorChangedEvents : e.scale_factor = 1}
    \cup {e \in MouseInputEvents : e.button \in {"Left", "Back"} /\ e.state = "Pressed"}
    \cup {e \in TouchEvents : e.id = 0 /\ e.phase \in {"Started", "Ended"}}
    \cup {e \in MouseWheelEvents : e.delta.unit = "LineDelta"}
    \cup {e \in CursorMovedEvents : e.position = <<4, 8>>}
    \cup CursorLeftEvents
    \cup {e \in ModifiersChangedEvents : e.state \in {{CONTROL}, {SHIFT}}}
    \cup {e \in KeyboardInputEvents :
            e.logical_key.name \in {"c", "V", "a"} /\ e.state = "Pressed" /\ ~e.repeat}
    \cup {e \in IgnoredEvents : e.kind = "Focused"}

\* The modifier sets of the runs that are about the keyboard.
KeyboardModifiers == {{}, {CONTROL}, {SUPER}, {SHIFT, ALT}}

-----------------------------------------------------------------------------
(* Specifications.  Every run makes at most MaxSteps calls. *)

\* Calls of every kind, with a few events of each kind.
Next ==
    \/ \E e \in FewEvents : Resized(e)
    \/ \E e \in FewEvents : ScaleFactorChanged(e)
    \/ \E e \in FewEvents : MouseInput(e)
    \/ \E e \in FewEvents : Touch(e)
    \/ \E e \in FewEvents : MouseWheel(e)
    \/ \E e \in FewEvents : CursorMoved(e)
    \/ \E e \in FewEvents : CursorLeft(e)
    \/ \E e \in FewEvents : ModifiersChanged(e)
    \/ \E e \in FewEvents, c \in ClipboardContents : KeyboardInput(e, c)
    \/ \E e \in FewEvents : Ignored(e)
    \/ \E t \in ElapsedSeconds : UpdateTime(t)
    \/ BeginFrame
    \/ \E w \in Windows, o \in FewPlatformOutputs : EndFrame(w, o)

Spec == Init /\ [][Next]_vars

\* Touch input: every touch event, scale changes, mouse presses and frames.
NextTouch ==
    \/ \E e \in TouchEvents : Touch(e)
    \/ \E e \in ScaleFactorChangedEvents : e.scale_factor = 1 /\ ScaleFactorChanged(e)
    \/ \E e \in MouseInputEvents : e.button = "Left" /\ MouseInput(e)
    \/ BeginFrame

SpecTouch == Init /\ [][NextTouch]_vars

\* Pointer input: every mouse button, cursor, resize and scale event, and frames.
NextPointer ==
    \/ \E e \in MouseInputEvents : MouseInput(e)
    \/ \E e \in CursorMovedEvents : CursorMoved(e)
    \/ \E e \in CursorLeftEvents : CursorLeft(e)
    \/ \E e \in ResizedEvents : Resized(e)
    \/ \E e \in ScaleFactorChangedEvents : ScaleFactorChanged(e)
    \/ \E e \in IgnoredEvents : Ignored(e)
    \/ BeginFrame

SpecPointer == Init /\ [][NextPointer]_vars

\* Modifiers: every modifier set, wheel events, a key, a button, and frames.
NextModifiers ==
    \/ \E e \in ModifiersChangedEvents : ModifiersChanged(e)
    \/ \E e \in MouseWheelEvents : MouseWheel(e)
    \/ \E e \in MouseInputEvents : e.button = "Left" /\ MouseInput(e)
    \/ \E e \in KeyboardInputEvents, c \in ClipboardContents :
            /\ e.logical_key.name = "a" /\ ~e.repeat
            /\ KeyboardInput(e, c)
    \/ BeginFrame

SpecModifiers == Init /\ [][NextModifiers]_vars

\* Keyboard input: every keyboard event under a few modifier sets, and frames.
NextKeyboard ==
    \/ \E e \in ModifiersChangedEvents :
            e.state \in KeyboardModifiers /\ ModifiersChanged(e)
    \/ \E e \in KeyboardInputEvents, c \in ClipboardContents : KeyboardInput(e, c)
    \/ BeginFrame

SpecKeyboard == Init /\ [][NextKeyboard]_vars

\* Frames: every end_frame argument and output, the cursor entering and leaving.
NextFrame ==
    \/ BeginFrame
    \/ \E w \in Windows, o \in PlatformOutputs : EndFrame(w, o)
    \/ \E e \in CursorMovedEvents : e.position = <<4, 8>> /\ CursorMoved(e)
    \/ \E e \in CursorLeftEvents : CursorLeft(e)
    \/ \E e \in ScaleFactorChangedEvents : ScaleFactorChanged(e)
    \/ \E t \in ElapsedSeconds : UpdateTime(t)

SpecFrame == Init /\ [][NextFrame]_vars

\* Scale: every scale change, with the events that carry physical coordinates.
NextScale ==
    \/ \E e \in ScaleFactorChangedEvents : ScaleFactorChanged(e)
    \/ \E e \in CursorMovedEvents : CursorMoved(e)
    \/ \E e \in TouchEvents : e.device_id = "dev_a" /\ e.id = 0 /\ Touch(e)
    \/ \E e \in ResizedEvents : Resized(e)
    \/ BeginFrame

SpecScale == Init /\ [][NextScale]_vars

-----------------------------------------------------------------------------
(* Reading the history. *)

Calls == 1..Len(history)

\* The state a call left behind.
Post(i) == IF i < Len(history) THEN history[i + 1].pre ELSE Snapshot

IsHandle(i, kind) ==
    history[i].call = "handle_event" /\ history[i].event.kind = kind

\* The handle_event calls, in order, without the frame calls between them.
Handles == SelectSeq(history, LAMBDA h : h.call = "handle_event")

\* Every event handle_event has pushed during calls 1..n, in order.
RECURSIVE EnqueuedUpTo(_)
EnqueuedUpTo(n) ==
    IF n = 0 THEN <<>> ELSE EnqueuedUpTo(n - 1) \o history[n].pushed

\* Every event begin_frame has handed to the context during calls 1..n, in order.
RECURSIVE HandedUpTo(_)
HandedUpTo(n) ==
    IF n = 0 THEN <<>>
    ELSE HandedUpTo(n - 1)
         \o (IF history[n].call = "begin_frame"
             THEN Unwrap(history[n].frame).events ELSE <<>>)

\* The primary-button events that touch events have pushed during calls 1..n.
RECURSIVE SyntheticButtonsUpTo(_)
SyntheticButtonsUpTo(n) ==
    IF n = 0 THEN <<>>
    ELSE SyntheticButtonsUpTo(n - 1)
         \o (IF IsHandle(n, "Touch")
             THEN SelectSeq(history[n].pushed, LAMBDA ev : ev.type = "PointerButton")
             ELSE <<>>)

SyntheticButtons == SyntheticButtonsUpTo(Len(history))

\* A synthetic press has been enqueued with no later synthetic release.
EmulatedPressed ==
    /\ SyntheticButtons # <<>>
    /\ SyntheticButtons[Len(SyntheticButtons)].pressed

-----------------------------------------------------------------------------
(* Claims. *)

\* C1: after any sequence of handle_event and begin_frame calls the
\* touch-emulated primary button is pressed (a synthetic press was enqueued
\* and no synthetic release after it) iff touch_pointer_pressed > 0, and the
\* counter is never negative.
C1_EmulatedPressedIffCounterPositive ==
    /\ EmulatedPressed <=> touch_pointer_pressed > 0
    /\ touch_pointer_pressed >= 0

\* A press and its release have been emulated, and a further end found the
\* counter at zero.
C1_Witness ==
    /\ Len(SyntheticButtons) = 2
    /\ touch_pointer_pressed = 0
    /\ \E i \in Calls :
        /\ IsHandle(i, "Touch") /\ history[i].event.phase \in {"Ended", "Cancelled"}
        /\ history[i].pre.touch_pointer_pressed = 0

\* C2: with the counter at zero, a touch Started followed by a touch Ended
\* with no other event between them enqueues exactly touch-start,
\* primary-button press, touch-end, primary-button release, pointer-gone, in
\* this order.
StartThenEnd(i) ==
    /\ i \in 1..(Len(Handles) - 1)
    /\ Handles[i].event.kind = "Touch" /\ Handles[i].event.phase = "Started"
    /\ Handles[i].pre.touch_pointer_pressed = 0
    /\ Handles[i + 1].event.kind = "Touch" /\ Handles[i + 1].event.phase = "Ended"

C2_StartEndOrder ==
    \A i \in 1..Len(Handles) :
        StartThenEnd(i) =>
            LET a == Handles[i]
                b == Handles[i + 1]
                evs == a.pushed \o b.pushed
                pos_a == ToLogical(a.event.location, a.pre.scale_factor)
                pos_b == ToLogical(b.event.location, b.pre.scale_factor)
            IN  /\ Len(evs) = 5
                /\ evs[1].type = "Touch" /\ evs[1].phase = "Start"
                /\ evs[1].id = a.event.id /\ evs[1].pos = pos_a
                /\ evs[2] = PointerButton(pos_a, "Primary", TRUE)
                /\ evs[3].type = "Touch" /\ evs[3].phase = "End"
                /\ evs[3].id = b.event.id /\ evs[3].pos = pos_b
                /\ evs[4] = PointerButton(pos_b, "Primary", FALSE)
                /\ evs[5] = PointerGone

C2_Witness == \E i \in 1..Len(Handles) : StartThenEnd(i)

\* C3: every event handle_event enqueues is handed to the context by exactly
\* one begin_frame, the first one after it was enqueued, in the order of
\* enqueueing, and the queue is empty right after each begin_frame.
EnqueuedSinceFrame(i) ==
    LET before == {j \in 1..(i - 1) : history[j].call = "begin_frame"}
        last == IF before = {} THEN 0
                ELSE CHOOSE j \in before : \A k \in before : k <= j
    IN  Suffix(EnqueuedUpTo(i), Len(EnqueuedUpTo(last)))

C3_HandedOnceInOrder ==
    /\ EnqueuedUpTo(Len(history)) = HandedUpTo(Len(history)) \o raw_input.events
    /\ \A i \in Calls :
        history[i].call = "begin_frame" =>
            /\ Unwrap(history[i].frame).events = EnqueuedSinceFrame(i)
            /\ Post(i).raw_input.events = <<>>

\* A frame that was handed events, and a later frame that was handed none.
C3_Witness ==
    \E i, j \in Calls :
        /\ i < j
        /\ history[i].call = "begin_frame" /\ history[j].call = "begin_frame"
        /\ Unwrap(history[i].frame).events # <<>>
        /\ Unwrap(history[j].frame).events = <<>>

\* C4: a mouse button event handled while pointer_pos is unknown leaves the
\* queue as it is; with a known position, Left, Right and Middle each enqueue
\* exactly one button event (Primary, Secondary, Middle) at that position with
\* the pressed state of the event; any other button enqueues nothing.
C4_Expected(pos, e) ==
    IF pos = None \/ e.button \notin {"Left", "Right", "Middle"}
    THEN <<>>
    ELSE <<[type |-> "PointerButton",
            pos |-> Unwrap(pos),
            button |-> CASE e.button = "Left" -> "Primary"
                         [] e.button = "Right" -> "Secondary"
                         [] e.button = "Middle" -> "Middle",
            pressed |-> (e.state = "Pressed"),
            modifiers |-> DefaultModifiers]>>

C4_MouseButtonNeedsPosition ==
    \A i \in Calls :
        IsHandle(i, "MouseInput") =>
            /\ history[i].pushed = C4_Expected(history[i].pre.pointer_pos, history[i].event)
            /\ Post(i).raw_input.events
                = history[i].pre.raw_input.events \o history[i].pushed

\* A primary press with the pointer outside the window, and a secondary
\* release with the pointer inside.
C4_Witness ==
    /\ \E i \in Calls :
        /\ IsHandle(i, "MouseInput") /\ history[i].event.button = "Left"
        /\ history[i].pre.pointer_pos = None /\ history[i].pushed = <<>>
    /\ \E i \in Calls :
        /\ IsHandle(i, "MouseInput") /\ history[i].event.button = "Right"
        /\ history[i].event.state = "Released"
        /\ history[i].pre.pointer_pos # None /\ Len(history[i].pushed) = 1

\* C5: handling a resize to 0 x 0 leaves the screen rectangle, the queue and
\* all other state of the platform as they were.
ZeroResize(i) ==
    /\ IsHandle(i, "Resized")
    /\ history[i].event.width = 0 /\ history[i].event.height = 0

C5_ZeroResizeIgnored ==
    \A i \in Calls : ZeroResize(i) => Post(i) = history[i].pre

\* A resize to 0 x 0 right after a resize that changed the rectangle.
C5_Witness ==
    \E i \in Calls :
        /\ ZeroResize(i) /\ i > 1 /\ IsHandle(i - 1, "Resized")
        /\ history[i].pre.raw_input.screen_rect # history[i - 1].pre.raw_input.screen_rect
        /\ Post(i).raw_input.screen_rect = history[i].pre.raw_input.screen_rect

\* C6: the device registry is an injective map that only grows: a device seen
\* before keeps the index it was first given, the n-th distinct device seen
\* gets index n, no index is given to a second device, and begin_frame does
\* not reset it.
\* The devices of the touch events of calls 1..n, in order of first appearance.
RECURSIVE DevicesSeenUpTo(_)
DevicesSeenUpTo(n) ==
    IF n = 0 THEN <<>>
    ELSE LET seen == DevicesSeenUpTo(n - 1)
         IN  IF IsHandle(n, "Touch")
                /\ \A k \in 1..Len(seen) : seen[k] # history[n].event.device_id
             THEN Append(seen, history[n].event.device_id)
             ELSE seen

C6_RegistryInjectiveGrowing ==
    LET seen == DevicesSeenUpTo(Len(history))
    IN  /\ DOMAIN device_indices = {seen[n] : n \in 1..Len(seen)}
        /\ \A n \in 1..Len(seen) : device_indices[seen[n]] = n
        /\ \A d1, d2 \in DOMAIN device_indices :
                device_indices[d1] = device_indices[d2] => d1 = d2
        /\ \A i \in Calls :
            /\ \A d \in DOMAIN history[i].pre.device_indices :
                /\ d \in DOMAIN Post(i).device_indices
                /\ Post(i).device_indices[d] = history[i].pre.device_indices[d]
            /\ IsHandle(i, "Touch") =>
                history[i].pushed[1].device_id
                    = Post(i).device_indices[history[i].event.device_id]

\* Two devices were registered, with indices 1 and 2, and the first device
\* touched again: it resolved to 1 and the next index stayed 3.
C6_Witness ==
    /\ Len(DevicesSeenUpTo(Len(history))) = 2
    /\ next_device_index = 3
    /\ \E j \in Calls :
        /\ IsHandle(j, "Touch")
        /\ Cardinality(DOMAIN history[j].pre.device_indices) = 2
        /\ history[j].pushed[1].device_id = 1

\* C7: a press of C, X or V while ctrl is held enqueues neither a generic key
\* event nor the text of the key: ctrl+C enqueues exactly one copy event,
\* ctrl+X exactly one cut event, ctrl+V one text event with the clipboard's
\* contents if there is a clipboard and it can be read, and nothing otherwise.
CtrlPress(i, names) ==
    /\ IsHandle(i, "KeyboardInput")
    /\ history[i].event.state = "Pressed"
    /\ CONTROL \in history[i].pre.modifier_state
    /\ history[i].event.logical_key.variant = "Character"
    /\ history[i].event.logical_key.name \in names

C7_CtrlShortcuts ==
    \A i \in Calls :
        /\ CtrlPress(i, {"c", "C"}) => history[i].pushed = <<[type |-> "Copy"]>>
        /\ CtrlPress(i, {"x", "X"}) => history[i].pushed = <<[type |-> "Cut"]>>
        /\ CtrlPress(i, {"v", "V"}) =>
            history[i].pushed =
                IF clipboard /\ history[i].clipboard_contents # None
                THEN <<[type |-> "Text", text |-> Unwrap(history[i].clipboard_contents)]>>
                ELSE <<>>

\* ctrl+C was pressed, and ctrl+V with a clipboard that could be read.
C7_Witness ==
    /\ \E i \in Calls : CtrlPress(i, {"c"}) /\ Len(history[i].pushed) = 1
    /\ \E i \in Calls :
        /\ CtrlPress(i, {"V"}) /\ history[i].event.text # None
        /\ history[i].clipboard_contents # None /\ Len(history[i].pushed) = 1

\* C8: the translated modifiers have alt, ctrl and shift equal to the native
\* bits of the same name, and command equal to the super bit on macOS and to
\* the ctrl bit on every other platform.
C8_ModifiersTranslation ==
    \A i \in Calls :
        IsHandle(i, "ModifiersChanged") =>
            LET native == history[i].event.state
                m == Post(i).raw_input.modifiers
            IN  /\ m.alt = (ALT \in native)
                /\ m.ctrl = (CONTROL \in native)
                /\ m.shift = (SHIFT \in native)
                /\ m.command = IF target_os_macos THEN SUPER \in native
                                                  ELSE CONTROL \in native

\* C9 as claimed: each wheel event enqueues exactly one event, a zoom of
\* exp(y / 200) if ctrl or command is set in the modifiers of the most recent
\* modifiers-changed event and a scroll otherwise, where a line delta (x, y)
\* counts as (8x, 8y) and a pixel delta as it is.
\* The modifiers stored by the most recent modifiers-changed event before call i.
ModifiersBefore(i) ==
    LET changes == {j \in 1..(i - 1) : IsHandle(j, "ModifiersChanged")}
    IN  IF changes = {} THEN DefaultModifiers
        ELSE Post(CHOOSE j \in changes : \A k \in changes : k <= j).raw_input.modifiers

C9_Expected(i, delta) ==
    IF ModifiersBefore(i).ctrl \/ ModifiersBefore(i).command
    THEN <<[type |-> "Zoom", exp_num |-> delta[2], exp_den |-> 200]>>
    ELSE <<[type |-> "Scroll", delta |-> delta]>>

C9_ClaimedDelta(d) ==
    IF d.unit = "LineDelta" THEN <<8 * d.x, 8 * d.y>> ELSE <<d.x, d.y>>

C9_WheelAsClaimed ==
    \A i \in Calls :
        IsHandle(i, "MouseWheel") =>
            history[i].pushed = C9_Expected(i, C9_ClaimedDelta(history[i].event.delta))

\* C9 as amended: the same, with the horizontal component negated on macOS;
\* line delta (1, 2) without ctrl or command yields scroll (8, 16), on macOS
\* scroll (-8, 16), and no zoom.
C9_WheelScrollOrZoom ==
    \A i \in Calls :
        IsHandle(i, "MouseWheel") =>
            LET d == C9_ClaimedDelta(history[i].event.delta)
                m == history[i].pre.raw_input.modifiers
            IN  /\ m = ModifiersBefore(i)
                /\ history[i].pushed =
                    C9_Expected(i, IF target_os_macos THEN <<0 - d[1], d[2]>> ELSE d)
                /\ (history[i].event.delta = [unit |-> "LineDelta", x |-> 1, y |-> 2]
                    /\ ~m.ctrl /\ ~m.command) =>
                        history[i].pushed =
                            <<[type |-> "Scroll",
                               delta |-> IF target_os_macos THEN <<-8, 16>> ELSE <<8, 16>>]>>

\* On macOS, a scroll by lines while no modifier is held, and a zoom.
C9_Witness ==
    /\ target_os_macos
    /\ \E i \in Calls :
        /\ IsHandle(i, "MouseWheel")
        /\ history[i].event.delta.unit = "LineDelta"
        /\ history[i].pushed[1].type = "Scroll"
    /\ \E i \in Calls :
        /\ IsHandle(i, "MouseWheel")
        /\ history[i].pushed[1].type = "Zoom"

\* C10 as claimed: a keyboard event enqueues a text event only if the key is
\* pressed, neither ctrl nor super is held, and its text is not empty once
\* the ASCII control characters and the private-use code points are removed.
C10_PrivateUse(c) ==
    \/ c \in 57344..63743
    \/ c \in 983040..1048573
    \/ c \in 1048576..1114109

C10_Kept(str) ==
    SelectSeq(str, LAMBDA c : ~C10_PrivateUse(c) /\ ~(c \in 0..31 \/ c = 127))

C10_OwnText(i) ==
    /\ history[i].event.state = "Pressed"
    /\ history[i].pre.modifier_state \cap {CONTROL, SUPER} = {}
    /\ history[i].event.text # None
    /\ C10_Kept(Unwrap(history[i].event.text)) # <<>>

C10_Texts(i) == SelectSeq(history[i].pushed, LAMBDA ev : ev.type = "Text")

C10_TextOnlyFromPayload ==
    \A i \in Calls :
        (IsHandle(i, "KeyboardInput") /\ C10_Texts(i) # <<>>) => C10_OwnText(i)

\* C10 as amended: a keyboard event enqueues a text event only in these two
\* cases: under the conditions claimed, and then the text is the filtered
\* payload; or as the clipboard's contents on a press of ctrl+V.
C10_TextFromPayloadOrPaste ==
    \A i \in Calls :
        IsHandle(i, "KeyboardInput") =>
            \A n \in 1..Len(C10_Texts(i)) :
                \/ /\ C10_OwnText(i)
                   /\ C10_Texts(i)[n].text = C10_Kept(Unwrap(history[i].event.text))
                \/ /\ CtrlPress(i, {"v", "V"})
                   /\ clipboard /\ history[i].clipboard_contents # None
                   /\ C10_Texts(i)[n].text = Unwrap(history[i].clipboard_contents)

\* A press without modifiers whose text is private-use code points only and
\* yields no text event, and a press whose mixed text yields the letter alone.
C10_Witness ==
    /\ \E i \in Calls :
        /\ IsHandle(i, "KeyboardInput") /\ history[i].event.state = "Pressed"
        /\ history[i].pre.modifier_state = {}
        /\ history[i].event.text = Some(<<983040, 1114109>>)
        /\ C10_Texts(i) = <<>>
    /\ \E i \in Calls :
        /\ IsHandle(i, "KeyboardInput")
        /\ history[i].event.text = Some(<<57344, 97, 127>>)
        /\ C10_Texts(i) = <<[type |-> "Text", text |-> <<97>>]>>

\* C11 as claimed: with contacts told apart by their touch id, a synthetic
\* release or a pointer-gone is enqueued by a touch only when the last contact
\* that is down ends or is cancelled, never while a contact is still down, and
\* a touch start that finds a contact down enqueues no second synthetic press.
\* The touch ids that have started and neither ended nor been cancelled
\* during calls 1..n.
RECURSIVE ContactsDownUpTo(_)
ContactsDownUpTo(n) ==
    IF n = 0 THEN {}
    ELSE LET down == ContactsDownUpTo(n - 1)
         IN  IF ~IsHandle(n, "Touch") THEN down
             ELSE IF history[n].event.phase = "Started"
                  THEN down \cup {history[n].event.id}
                  ELSE IF history[n].event.phase \in {"Ended", "Cancelled"}
                       THEN down \ {history[n].event.id}
                       ELSE down

C11_Lifts(i) ==
    \E k \in 1..Len(history[i].pushed) :
        \/ history[i].pushed[k] = [type |-> "PointerGone"]
        \/ /\ history[i].pushed[k].type = "PointerButton"
           /\ ~history[i].pushed[k].pressed

C11_Presses(i) ==
    \E k \in 1..Len(history[i].pushed) :
        /\ history[i].pushed[k].type = "PointerButton"
        /\ history[i].pushed[k].pressed

C11_Merged(i) ==
    /\ C11_Lifts(i) =>
        /\ history[i].event.phase \in {"Ended", "Cancelled"}
        /\ history[i].event.id \in ContactsDownUpTo(i - 1)
        /\ ContactsDownUpTo(i) = {}
    /\ (history[i].event.phase = "Started" /\ ContactsDownUpTo(i - 1) # {}) =>
        ~C11_Presses(i)

C11_Balanced(i) ==
    \A j \in 1..i :
        (IsHandle(j, "Touch") /\ history[j].event.phase \in {"Ended", "Cancelled"})
            => history[j].event.id \in ContactsDownUpTo(j - 1)

-----------------------------------------------------------------------------
(* C12: the scale factor in the frame's input. *)

BeginFrames == {i \in Calls : history[i].call = "begin_frame"}

\* C12: the input that begin_frame hands to the context carries the current
\* scale factor (the one given at construction or set by the most recent
\* ScaleFactorChanged), together with the screen rectangle, the modifiers, the
\* time and the events that raw_input held.
C12_FrameCarriesScaleFactor ==
    \A i \in BeginFrames :
        LET frame == Unwrap(history[i].frame)
            pre == history[i].pre
        IN  /\ frame.pixels_per_point = Some(pre.scale_factor)
            /\ frame.screen_rect = pre.raw_input.screen_rect
            /\ frame.modifiers = pre.raw_input.modifiers
            /\ frame.time = pre.raw_input.time
            /\ frame.events = pre.raw_input.events

-----------------------------------------------------------------------------
(* C13: the cursor at the end of a frame. *)

EndFrames == {i \in Calls : history[i].call = "end_frame"}

C13_CursorCalls(i) ==
    SelectSeq(history[i].host_calls,
              LAMBDA c : c.call \in {"set_cursor_visible", "set_cursor_icon"})

C13_Visible(i, visible) ==
    \E k \in 1..Len(C13_CursorCalls(i)) :
        /\ C13_CursorCalls(i)[k].call = "set_cursor_visible"
        /\ C13_CursorCalls(i)[k].visible = visible

C13_Shapes(i) ==
    SelectSeq(C13_CursorCalls(i), LAMBDA c : c.call = "set_cursor_icon")

\* C13: end_frame with a window makes the cursor invisible exactly when the
\* requested icon is None; for every other icon it makes the cursor visible and
\* sets the shape, the one shape the icon maps to, exactly when the pointer
\* position is known; without a window it makes no cursor call.
C13_EndFrameCursor ==
    \A i \in EndFrames :
        LET h == history[i]
            icon == h.output.cursor_icon
        IN  IF ~IsSome(h.window)
            THEN C13_CursorCalls(i) = <<>>
            ELSE /\ C13_Visible(i, FALSE) <=> icon = "None"
                 /\ icon = "None" => ~C13_Visible(i, TRUE) /\ C13_Shapes(i) = <<>>
                 /\ icon # "None" =>
                        /\ C13_Visible(i, TRUE)
                        /\ C13_Shapes(i) # <<>> <=> IsSome(h.pre.pointer_pos)
                        /\ Len(C13_Shapes(i)) <= 1
                        /\ \A k \in 1..Len(C13_Shapes(i)) :
                               /\ C13_Shapes(i)[k].cursor \in {p[2] : p \in CursorIconShapes}
                               /\ Some(C13_Shapes(i)[k].cursor) = egui_to_winit_cursor_icon(icon)

\* A frame is ended on a window with an icon that has a shape after the cursor
\* has left: the cursor is made visible and no shape is set.
C13_Witness ==
    \E i \in EndFrames :
        /\ IsSome(history[i].window)
        /\ history[i].output.cursor_icon = "ResizeHorizontal"
        /\ ~IsSome(history[i].pre.pointer_pos)
        /\ C13_CursorCalls(i) = <<[call |-> "set_cursor_visible", visible |-> TRUE]>>

-----------------------------------------------------------------------------
(* C14: a touch end without a touch start. *)

C14_UnbalancedEnd(i) ==
    /\ IsHandle(i, "Touch")
    /\ history[i].event.phase \in {"Ended", "Cancelled"}
    /\ history[i].pre.touch_pointer_pressed = 0

C14_NoStartBetween(i, j) ==
    \A k \in (i + 1)..(j - 1) :
        ~(IsHandle(k, "Touch") /\ history[k].event.phase = "Started")

\* C14: a touch Ended or Cancelled that arrives while the touch counter is zero
\* is tolerated: the call completes, the counter stays zero, the only event
\* enqueued is the raw touch event, and the next touch Started still enqueues
\* the synthetic press.
C14_UnbalancedEndTolerated ==
    \A i \in Calls : C14_UnbalancedEnd(i) =>
        /\ Post(i).touch_pointer_pressed = 0
        /\ Len(history[i].pushed) = 1
        /\ history[i].pushed[1].type = "Touch"
        /\ history[i].pushed[1].phase \in {"End", "Cancel"}
        /\ \A j \in (i + 1)..Len(history) :
               (/\ IsHandle(j, "Touch")
                /\ history[j].event.phase = "Started"
                /\ C14_NoStartBetween(i, j))
               => \E k \in 1..Len(history[j].pushed) :
                      history[j].pushed[k] =
                          PointerButton(ToLogical(history[j].event.location,
                                                  history[j].pre.scale_factor),
                                        "Primary", TRUE)

\* An end at counter zero, a cancel at counter zero, then a start that presses.
C14_Witness ==
    /\ Len(history) = 3
    /\ C14_UnbalancedEnd(1) /\ history[1].event.phase = "Ended"
    /\ C14_UnbalancedEnd(2) /\ history[2].event.phase = "Cancelled"
    /\ IsHandle(3, "Touch") /\ history[3].event.phase = "Started"
    /\ Len(history[3].pushed) = 2
    /\ touch_pointer_pressed = 1

-----------------------------------------------------------------------------
(* C15: pointer emulation of a touch move. *)

\* C15: a touch Moved enqueues its raw touch event and then, only while the
\* touch counter is positive, one PointerMoved at the touch position; while
\* the counter is zero it enqueues the raw touch event alone.
C15_MovedOnlyWhileActive ==
    \A i \in Calls :
        (IsHandle(i, "Touch") /\ history[i].event.phase = "Moved") =>
            LET h == history[i]
                pos == ToLogical(h.event.location, h.pre.scale_factor)
            IN  /\ Len(h.pushed) >= 1
                /\ h.pushed[1].type = "Touch"
                /\ h.pushed[1].phase = "Move"
                /\ Suffix(h.pushed, 1) =
                       IF h.pre.touch_pointer_pressed > 0
                       THEN <<PointerMoved(pos)>>
                       ELSE <<>>

-----------------------------------------------------------------------------
(* C16: the modifiers that key and button events carry. *)

\* C16: every Key event and every PointerButton event that is enqueued
\* carries the modifiers stored by the most recent ModifiersChanged (none
\* before the first), and the stored modifiers stay as they are across
\* begin_frame and every other call until the next ModifiersChanged.
C16_EventsCarryTrackedModifiers ==
    \A i \in Calls :
        /\ history[i].pre.raw_input.modifiers = ModifiersBefore(i)
        /\ \A k \in 1..Len(history[i].pushed) :
               history[i].pushed[k].type \in {"Key", "PointerButton"}
                   => history[i].pushed[k].modifiers = ModifiersBefore(i)

-----------------------------------------------------------------------------
(* C17: the key event of a keyboard event. *)

C17_Keys(i) == SelectSeq(history[i].pushed, LAMBDA ev : ev.type = "Key")

\* C17: a keyboard event whose key has an egui key and that is not a pressed
\* ctrl+C, ctrl+X or ctrl+V enqueues exactly one Key event, with the pressed
\* state and the repeat flag of the native event; a key without an egui key
\* enqueues no Key event.
C17_KeyEventAsNative ==
    \A i \in Calls : IsHandle(i, "KeyboardInput") =>
        LET e == history[i].event
        IN  IF ~IsSome(winit_to_egui_key_code(e.logical_key))
            THEN C17_Keys(i) = <<>>
            ELSE ~CtrlPress(i, {"c", "C", "x", "X", "v", "V"}) =>
                    /\ Len(C17_Keys(i)) = 1
                    /\ C17_Keys(i)[1].key = Unwrap(winit_to_egui_key_code(e.logical_key))
                    /\ C17_Keys(i)[1].pressed = (e.state = "Pressed")
                    /\ C17_Keys(i)[1].repeat = e.repeat

-----------------------------------------------------------------------------
(* C18: the scale factor. *)

\* The scale factor in force at call i: the one of the most recent
\* ScaleFactorChanged before it, or else the one the platform was built with.
ScaleBefore(i) ==
    LET changes == {j \in 1..(i - 1) : IsHandle(j, "ScaleFactorChanged")}
    IN  IF changes = {} THEN history[1].pre.scale_factor
        ELSE history[CHOOSE j \in changes : \A k \in changes : k <= j].event.scale_factor

C18_Scaled(i, xy) == ToLogical(xy, ScaleBefore(i))

\* C18: a ScaleFactorChanged changes the stored scale factor and nothing else
\* (no event enqueued; screen rectangle, pointer position, modifiers, touch
\* counter and device registry as before), and every later CursorMoved, Touch
\* and Resized divides its physical coordinates by that factor.
C18_ScaleChangeOnlyScale ==
    \A i \in Calls :
        /\ IsHandle(i, "ScaleFactorChanged") =>
            /\ Post(i) = [history[i].pre EXCEPT !.scale_factor = history[i].event.scale_factor]
            /\ history[i].pushed = <<>>
        /\ IsHandle(i, "CursorMoved") =>
            /\ Post(i).pointer_pos = Some(C18_Scaled(i, history[i].event.position))
            /\ history[i].pushed = <<PointerMoved(C18_Scaled(i, history[i].event.position))>>
        /\ IsHandle(i, "Touch") =>
            /\ Len(history[i].pushed) >= 1
            /\ \A k \in 1..Len(history[i].pushed) :
                   history[i].pushed[k].type # "PointerGone"
                       => history[i].pushed[k].pos = C18_Scaled(i, history[i].event.location)
        /\ (IsHandle(i, "Resized") /\ ~ZeroResize(i)) =>
            Post(i).raw_input.screen_rect =
                Some(RectFromMinSize(C18_Scaled(i,
                        <<history[i].event.width, history[i].event.height>>)))

\* The factor changes from 2 to 1, and then a cursor move and a resize use 1.
C18_Witness ==
    /\ Len(history) = 3
    /\ IsHandle(1, "ScaleFactorChanged")
    /\ history[1].pre.scale_factor = 2 /\ history[1].event.scale_factor = 1
    /\ IsHandle(2, "CursorMoved") /\ history[2].event.position = <<4, 8>>
    /\ pointer_pos = Some(<<4, 8>>)
    /\ IsHandle(3, "Resized")
    /\ raw_input.screen_rect = Some(RectFromMinSize(<<4, 8>>))

-----------------------------------------------------------------------------
(* C19, C20: the tracked pointer position. *)

\* The CursorMoved and CursorLeft events among calls 1..n.
CursorEventsUpTo(n) ==
    {j \in 1..n : IsHandle(j, "CursorMoved") \/ IsHandle(j, "CursorLeft")}

\* The most recent CursorMoved or CursorLeft among calls 1..n was a CursorLeft.
LastCursorEventLeft(n) ==
    /\ CursorEventsUpTo(n) # {}
    /\ IsHandle(CHOOSE j \in CursorEventsUpTo(n) : \A k \in CursorEventsUpTo(n) : k <= j,
                "CursorLeft")

\* C19: the pointer position is unknown exactly when the most recent
\* CursorMoved or CursorLeft was a CursorLeft; a CursorLeft makes it unknown and
\* enqueues exactly one PointerGone, a CursorMoved sets it to the scaled
\* position and enqueues exactly one PointerMoved, and no other call changes it.
C19_PointerPositionTracksCursor ==
    /\ ~IsSome(pointer_pos) <=> LastCursorEventLeft(Len(history))
    /\ \A i \in Calls :
        /\ ~IsSome(history[i].pre.pointer_pos) <=> LastCursorEventLeft(i - 1)
        /\ IsHandle(i, "CursorLeft") =>
            /\ Post(i).pointer_pos = None
            /\ history[i].pushed = <<PointerGone>>
        /\ IsHandle(i, "CursorMoved") =>
            /\ Post(i).pointer_pos =
                   Some(ToLogical(history[i].event.position, history[i].pre.scale_factor))
            /\ history[i].pushed =
                   <<PointerMoved(ToLogical(history[i].event.position,
                                            history[i].pre.scale_factor))>>
        /\ i \notin CursorEventsUpTo(i) =>
            Post(i).pointer_pos = history[i].pre.pointer_pos

\* The cursor moves in, leaves, and a touch starts while the position is unknown.
C19_Witness ==
    /\ Len(history) = 3
    /\ IsHandle(1, "CursorMoved") /\ history[2].pre.pointer_pos = Some(<<2, 4>>)
    /\ IsHandle(2, "CursorLeft") /\ history[2].pushed = <<PointerGone>>
    /\ IsHandle(3, "Touch")
    /\ pointer_pos = None

\* C20: a mouse button event is enqueued only if a CursorMoved has been
\* handled since construction and since the last CursorLeft; a press on a
\* platform that has seen no CursorMoved enqueues nothing.
C20_ButtonOnlyAfterCursorMoved ==
    \A i \in Calls :
        (IsHandle(i, "MouseInput") /\ history[i].pushed # <<>>) =>
            /\ CursorEventsUpTo(i - 1) # {}
            /\ ~LastCursorEventLeft(i - 1)

-----------------------------------------------------------------------------
(* C21: what begin_frame leaves alone. *)

\* A touch starts at call i from counter zero, ends or is cancelled at call j,
\* and only begin_frame calls, at least one, lie between the two.
C21_TouchAcrossFrames(i, j) ==
    /\ i + 1 < j
    /\ IsHandle(i, "Touch") /\ history[i].event.phase = "Started"
    /\ history[i].pre.touch_pointer_pressed = 0
    /\ IsHandle(j, "Touch") /\ history[j].event.phase \in {"Ended", "Cancelled"}
    /\ \A k \in (i + 1)..(j - 1) : k \in BeginFrames

\* C21: begin_frame changes raw_input and nothing else: scale factor, pointer
\* position, modifier state, touch counter and device registry are after it
\* what they were before, so a touch that started before a begin_frame and
\* ends after it still enqueues the release followed by PointerGone.
C21_BeginFrameKeepsTracking ==
    /\ \A i \in BeginFrames :
           Post(i) = [history[i].pre EXCEPT !.raw_input = Post(i).raw_input]
    /\ \A i \in Calls, j \in Calls :
           C21_TouchAcrossFrames(i, j) =>
               LET pos == ToLogical(history[j].event.location, history[j].pre.scale_factor)
               IN  Suffix(history[j].pushed, 1) =
                       <<PointerButton(pos, "Primary", FALSE), PointerGone>>

\* A touch starts, a frame begins, the touch ends with release and PointerGone.
C21_Witness ==
    /\ Len(history) = 3
    /\ C21_TouchAcrossFrames(1, 3)
    /\ history[3].pre.touch_pointer_pressed = 1
    /\ Len(history[3].pushed) = 3
    /\ history[3].pushed[3] = PointerGone
    /\ touch_pointer_pressed = 0

-----------------------------------------------------------------------------
(* C22: the order of the events of one keyboard event. *)

C22_Texts(i) == SelectSeq(history[i].pushed, LAMBDA ev : ev.type = "Text")

C22_KeyLike(i) ==
    SelectSeq(history[i].pushed, LAMBDA ev : ev.type \in {"Key", "Copy", "Cut"})

\* C22: one keyboard event enqueues at most one Text event and at most one of
\* Key, Copy and Cut, and nothing else; when it enqueues both a Text and a Key
\* event, the Text event comes first.
C22_TextBeforeKey ==
    \A i \in Calls : IsHandle(i, "KeyboardInput") =>
        /\ Len(C22_Texts(i)) <= 1
        /\ Len(C22_KeyLike(i)) <= 1
        /\ history[i].pushed = C22_Texts(i) \o C22_KeyLike(i)

\* A pressed "a" with printable text and no modifier: its text, then its key.
C22_Witness ==
    \E i \in Calls :
        /\ IsHandle(i, "KeyboardInput")
        /\ Len(history[i].pushed) = 2
        /\ history[i].pushed[1] = Text(<<97>>)
        /\ history[i].pushed[2].type = "Key"
        /\ history[i].pushed[2].key = "A"

====
